---- MODULE Spec2Model ----
(***************************************************************************)
(* Model of InnerEarVisualization.py: the three slice planes of a volume,  *)
(* the renderer's actor list, the three 3D sliders and the slider callback *)
(* that moves a plane.                                                     *)
(*                                                                         *)
(* Numbers.  spacing and origin are Python floats; they are kept as exact  *)
(* rationals with denominator PhysDen.  A slider value is a float too and  *)
(* is kept as a rational with denominator RawDen.  Voxel indices, display  *)
(* extents and dimensions are integers.  A display extent is the 6-tuple   *)
(* (xmin, xmax, ymin, ymax, zmin, zmax) of vtkImageActor, so Python's      *)
(* extent[axis * 2] is extent[axis * 2 + 1] in the 1-based tuples here.    *)
(***************************************************************************)
EXTENDS Integers, Sequences, FiniteSets

VARIABLES
    volume,     \* reader.GetOutput(): dimensions, spacing, origin
    objects,    \* the static actors LoadFiles returns, in order
    planes,     \* the list CreatePlanes returns (empty before it ran)
    actors,     \* the renderer's actor list, in AddActor order
    sliders,    \* the slider representations with their callbacks
    cb,         \* the frame of SliderCallback.__call__
    pc          \* position in main / Render3DWithSliders

vars == <<volume, objects, planes, actors, sliders, cb, pc>>

----------------------------------------------------------------------------
(* Bounds of the model *)

MaxDim == 2         \* generated volumes have 1..MaxDim voxels per axis
MaxModels == 2      \* no .vtk model file, or this many
MaxK == 1           \* slider values 0.9 * k for k in 1..MaxK

PhysDen == 2        \* spacing and origin are counted in 1/PhysDen
RawDen == 10        \* slider values are counted in 1/RawDen

Axes == 0..2

----------------------------------------------------------------------------
(* Arithmetic *)

\* Python's int(n / d) for d > 0: truncation toward zero.
int(n, d) == IF n >= 0 THEN n \div d ELSE -((-n) \div d)

\* n / d rounded to the nearest integer, halves away from zero.
Round(n, d) == IF n >= 0 THEN (2 * n + d) \div (2 * d)
                         ELSE -((2 * (-n) + d) \div (2 * d))

Clamp(x, lo, hi) == IF x < lo THEN lo ELSE IF x > hi THEN hi ELSE x

----------------------------------------------------------------------------
(* The inputs: the volume read by LoadFiles and the model actors *)

ScenarioVolume ==
    [dimensions |-> <<100, 100, 50>>,
     spacing    |-> <<1 * PhysDen, 1 * PhysDen, 2 * PhysDen>>,
     origin     |-> <<0, 0, 0>>]

\* spacing and origin of the generated volumes: isotropic 1.0 at the origin,
\* anisotropic (0.5, 1.0, 1.5) with a negative origin, and isotropic 1.0 with an
\* origin far beyond the volume's physical size.
GeometryChoices ==
    { [spacing |-> <<PhysDen, PhysDen, PhysDen>>, origin |-> <<0, 0, 0>>],
      [spacing |-> <<1, 2, 3>>,                   origin |-> <<-3, -4, -5>>],
      [spacing |-> <<PhysDen, PhysDen, PhysDen>>, origin |-> <<1000 * PhysDen, 0, -1000 * PhysDen>>] }

Volumes ==
    {ScenarioVolume} \cup
    { [dimensions |-> <<a, b, c>>, spacing |-> g.spacing, origin |-> g.origin] :
        a \in 1..MaxDim, b \in 1..MaxDim, c \in 1..MaxDim, g \in GeometryChoices }

\* LoadFiles: the outline actor first, then one actor per .vtk file.
LoadFiles(n) == <<"outline">> \o [k \in 1..n |-> <<"model", k>>]

\* The values a slider representation reports to the callback.  The callback
\* reads the value from the object that raised the event and nothing in
\* lines 10-15 bounds it, so values outside the control's range are included.
RawValues == {-100 * RawDen, 739, 150 * RawDen} \cup {9 * k : k \in 1..MaxK}

----------------------------------------------------------------------------
(* CreatePlanes *)

\* center[i] * 2 * PhysDen, for center[i] = origin[i] + (dimensions[i]-1) * spacing[i] / 2.0
Center2(v, i) == 2 * v.origin[i + 1] + (v.dimensions[i + 1] - 1) * v.spacing[i + 1]

\* int(center[i] / spacing[i])
CenterIndex(v, i) == int(Center2(v, i), 2 * v.spacing[i + 1])

\* A vtkImageFlip chain is the sequence of the axes flipped, reader first.
Reader == <<>>
Flip(input, axis) == Append(input, axis)
FlipX == Flip(Reader, 0)
FlipY == Flip(Reader, 1)
FlipXY == Flip(FlipX, 1)
FlipYX == Flip(FlipY, 0)

\* Mutant: the sagittal actor reads the reader's output directly.
SagittalInput_reader == Reader

SagittalInput == FlipXY
AxialInput == FlipXY
CoronalInput == FlipYX

Sagittal(v) ==
    [name   |-> "sagittal",
     input  |-> SagittalInput,
     extent |-> <<CenterIndex(v, 0), CenterIndex(v, 0),
                  0, v.dimensions[2] - 1,
                  0, v.dimensions[3] - 1>>]

Axial(v) ==
    [name   |-> "axial",
     input  |-> AxialInput,
     extent |-> <<0, v.dimensions[1] - 1,
                  0, v.dimensions[2] - 1,
                  CenterIndex(v, 2), CenterIndex(v, 2)>>]

Coronal(v) ==
    [name   |-> "coronal",
     input  |-> CoronalInput,
     extent |-> <<0, v.dimensions[1] - 1,
                  CenterIndex(v, 1), CenterIndex(v, 1),
                  0, v.dimensions[3] - 1>>]

CreatePlanes ==
    /\ pc = "loaded"
    /\ planes' = <<Sagittal(volume), Axial(volume), Coronal(volume)>>
    /\ pc' = "planes"
    /\ UNCHANGED <<volume, objects, actors, sliders, cb>>

----------------------------------------------------------------------------
(* Render3DWithSliders: the renderer's actor list *)

RECURSIVE AddActorEach(_, _)
\* for a in list: renderer.AddActor(a)
AddActorEach(renderer, list) ==
    IF list = <<>> THEN renderer
    ELSE AddActorEach(Append(renderer, Head(list)), Tail(list))

PlaneNames(ps) == [k \in 1..Len(ps) |-> ps[k].name]

\* Mutant: the two loops of lines 251-257 in the other order.
ComposeScene_planesFirst(renderer, objs, ps) ==
    AddActorEach(AddActorEach(renderer, PlaneNames(ps)), objs)

ComposeScene(renderer, objs, ps) ==
    AddActorEach(AddActorEach(renderer, objs), PlaneNames(ps))

AddActors ==
    /\ pc = "planes"
    /\ actors' = ComposeScene(actors, objects, planes)
    /\ pc' = "scene"
    /\ UNCHANGED <<volume, objects, planes, sliders, cb>>

----------------------------------------------------------------------------
(* AddSliders *)

\* Mutant: zip(planes, [0, 1, 2]), axial and coronal axes swapped.
SliderAxes_unswapped == <<0, 1, 2>>

\* zip(planes, [0, 2, 1]): sagittal -> X, axial -> Z, coronal -> Y
SliderAxes == <<0, 2, 1>>

\* plane.GetInput().GetDimensions(): a flip keeps the dimensions of its input
GetDimensions(plane) == volume.dimensions

SliderMinimum == 0

\* Mutant: the maximum one past the last voxel.
SliderMaximum_offByOne(plane, axis) == GetDimensions(plane)[axis + 1]

SliderMaximum(plane, axis) == GetDimensions(plane)[axis + 1] - 1

\* sliderRep.SetValue(plane.GetDisplayExtent()[axis * 2])
SliderValue(plane, axis) == plane.extent[axis * 2 + 1] * RawDen

\* One slider: its representation's range and value, and the plane and axis
\* its SliderCallback holds.  SetMinimumValue, SetMaximumValue and SetValue
\* are taken as stores of the values the source passes.
NewSlider(k) ==
    [min   |-> SliderMinimum,
     max   |-> SliderMaximum(planes[k], SliderAxes[k]),
     value |-> SliderValue(planes[k], SliderAxes[k]),
     plane |-> k,
     axis  |-> SliderAxes[k]]

AddSliders ==
    /\ pc = "scene"
    /\ sliders' = [k \in 1..Len(planes) |-> NewSlider(k)]
    /\ pc' = "running"
    /\ UNCHANGED <<volume, objects, planes, actors, cb>>

----------------------------------------------------------------------------
(* SliderCallback.__call__, line by line *)

Returned == cb.line \in {"idle", "returned"}

\* Mutant: the value taken as a move relative to the current slice.
CallbackPosition_relative(k, v) ==
    planes[sliders[k].plane].extent[sliders[k].axis * 2 + 1] + int(v, RawDen)

\* position = int(obj.GetRepresentation().GetValue())
CallbackPosition(k, v) == int(v, RawDen)

\* The widget k reports value v in an InteractionEvent: lines 11 and 12 read
\* the value and copy the plane's display extent into the local list.  Events
\* are handled one at a time by the interactor's loop, so an event starts only
\* when the previous call has returned.  cb.repeat is bookkeeping, not program
\* state: it records that this event repeats the previous one (same control,
\* same value).
Interaction(k, v) ==
    /\ pc = "running"
    /\ Returned
    /\ sliders' = [sliders EXCEPT ![k].value = v]
    /\ cb' = [slider   |-> k,
              position |-> CallbackPosition(k, v),
              extent   |-> planes[sliders[k].plane].extent,
              line     |-> "13",
              repeat   |-> cb.line = "returned" /\ cb.slider = k /\ sliders[k].value = v]
    /\ UNCHANGED <<volume, objects, planes, actors, pc>>

\* Mutant: line 13 writes through to the plane's own extent.
SetLow_inPlace ==
    /\ cb.line = "13"
    /\ cb' = [cb EXCEPT !.extent[sliders[cb.slider].axis * 2 + 1] = cb.position,
                        !.line = "14"]
    /\ planes' = [planes EXCEPT ![sliders[cb.slider].plane].extent[sliders[cb.slider].axis * 2 + 1] =
                                     cb.position]
    /\ UNCHANGED <<volume, objects, actors, sliders, pc>>

\* extent[self.axis * 2] = position
SetLow ==
    /\ cb.line = "13"
    /\ cb' = [cb EXCEPT !.extent[sliders[cb.slider].axis * 2 + 1] = cb.position,
                        !.line = "14"]
    /\ UNCHANGED <<volume, objects, planes, actors, sliders, pc>>

\* extent[self.axis * 2 + 1] = position
SetHigh ==
    /\ cb.line = "14"
    /\ cb' = [cb EXCEPT !.extent[sliders[cb.slider].axis * 2 + 2] = cb.position,
                        !.line = "15"]
    /\ UNCHANGED <<volume, objects, planes, actors, sliders, pc>>

\* self.plane.SetDisplayExtent(*extent)
SetDisplayExtent ==
    /\ cb.line = "15"
    /\ planes' = [planes EXCEPT ![sliders[cb.slider].plane].extent = cb.extent]
    /\ cb' = [cb EXCEPT !.line = "returned"]
    /\ UNCHANGED <<volume, objects, actors, sliders, pc>>

----------------------------------------------------------------------------

Init ==
    /\ volume \in Volumes
    /\ objects \in {LoadFiles(n) : n \in {0, MaxModels}}
    /\ planes = <<>>
    /\ actors = <<>>
    /\ sliders = <<>>
    /\ cb = [slider |-> 0, position |-> 0, extent |-> <<>>, line |-> "idle", repeat |-> FALSE]
    /\ pc = "loaded"

Next ==
    \/ CreatePlanes
    \/ AddActors
    \/ AddSliders
    \/ \E k \in 1..3, v \in RawValues : Interaction(k, v)
    \/ SetLow
    \/ SetHigh
    \/ SetDisplayExtent

Spec == Init /\ [][Next]_vars

----------------------------------------------------------------------------
(* Readings used by the properties *)

\* The axis each plane slices along: sagittal X, axial Z, coronal Y.
PlaneAxis == <<0, 2, 1>>

Created == pc # "loaded"

\* The pinned pair of plane k's display extent.
PinnedMin(k) == planes[k].extent[PlaneAxis[k] * 2 + 1]
PinnedMax(k) == planes[k].extent[PlaneAxis[k] * 2 + 2]

AxisLength(k) == volume.dimensions[PlaneAxis[k] + 1]

InRange(k) == 0 <= PinnedMin(k) /\ PinnedMin(k) <= AxisLength(k) - 1

\* The pair of axis a in an extent.
Pair(extent, a) == <<extent[a * 2 + 1], extent[a * 2 + 2]>>

\* The planes as CreatePlanes returned them.
InitialPlanes == <<Sagittal(volume), Axial(volume), Coronal(volume)>>

\* The callback has returned from an event of slider k.
Delivered(k) == pc = "running" /\ cb.line = "returned" /\ cb.slider = k

----------------------------------------------------------------------------
(* C1: a position update with any integer x leaves the plane at              *)
(* clamp(x, 0, dimensions[axis]-1), so after any sequence of interactions    *)
(* every plane's position is within 0 .. dimensions[axis]-1.                 *)
C1_UpdateClamps ==
    \A k \in 1..3 :
        Delivered(k) =>
            /\ sliders[k].value % RawDen = 0 =>
                   PinnedMin(k) = Clamp(sliders[k].value \div RawDen, 0, AxisLength(k) - 1)
            /\ \A j \in 1..3 : InRange(j)

(* C2: for a raw value v inside the control's range the position after the   *)
(* event is v rounded to the nearest integer.                                *)
C2_HandlerRounds ==
    \A k \in 1..3 :
        ( /\ Delivered(k)
          /\ sliders[k].min * RawDen <= sliders[k].value
          /\ sliders[k].value <= sliders[k].max * RawDen )
        => PinnedMin(k) = Round(sliders[k].value, RawDen)

(* C3: the slice index each plane is created at lies within                  *)
(* 0 .. dimensions[axis]-1, for every valid volume.                          *)
C3_InitialIndexInRange ==
    pc = "planes" => \A k \in 1..3 : InRange(k)

(* C4: each plane is created at center[axis] / spacing[axis] rounded to the  *)
(* nearest voxel (stated where that voxel is inside the volume); the         *)
(* 100 x 100 x 50 volume of spacing (1, 1, 2) at the origin starts at 50 on  *)
(* X, 50 on Y and 25 on Z.                                                   *)
C4_InitialIndexRounded ==
    pc = "planes" =>
        /\ \A k \in 1..3 :
               LET rounded == Round(Center2(volume, PlaneAxis[k]),
                                    2 * volume.spacing[PlaneAxis[k] + 1])
               IN  (0 <= rounded /\ rounded <= AxisLength(k) - 1) => PinnedMin(k) = rounded
        /\ volume = ScenarioVolume =>
               <<PinnedMin(1), PinnedMin(3), PinnedMin(2)>> = <<50, 50, 25>>

(* C5: in every state each plane's display extent has its own axis pinned to *)
(* (position, position) and the other two axes spanning                      *)
(* (0, dimensions[i]-1); sagittal is pinned on X, axial on Z, coronal on Y;  *)
(* after an event the pinned pair holds the position the event delivered.    *)
C5_ExtentShape ==
    Created =>
        \A k \in 1..3 :
            /\ PinnedMin(k) = PinnedMax(k)
            /\ \A a \in Axes \ {PlaneAxis[k]} :
                   Pair(planes[k].extent, a) = <<0, volume.dimensions[a + 1] - 1>>
            /\ Delivered(k) => PinnedMin(k) = cb.position

C5_Witness ==
    /\ Delivered(2)
    /\ planes[2].extent[5] # CenterIndex(volume, 2)
    /\ planes[2].extent[5] = planes[2].extent[6]
    /\ Pair(planes[2].extent, 1) = <<0, volume.dimensions[2] - 1>>
    /\ volume.dimensions[2] # volume.dimensions[3]

(* C6: right after the sliders are bound, each control's range is            *)
(* (0, dimensions[plane.axis]-1) and its value is the plane's position; the  *)
(* axial control of a volume with 50 voxels on Z has the range (0, 49).      *)
C6_BindRangeAndValue ==
    (pc = "running" /\ cb.line = "idle") =>
        /\ \A k \in 1..3 :
               /\ sliders[k].min = 0
               /\ sliders[k].max = AxisLength(k) - 1
               /\ sliders[k].value = PinnedMin(k) * RawDen
        /\ volume.dimensions[3] = 50 => <<sliders[2].min, sliders[2].max>> = <<0, 49>>

C6_Witness ==
    /\ pc = "running"
    /\ cb.line = "idle"
    /\ volume = ScenarioVolume
    /\ <<sliders[2].min, sliders[2].max>> = <<0, 49>>
    /\ sliders[2].value = planes[2].extent[5] * RawDen

(* C7: delivering the same value to the same control twice in a row changes  *)
(* nothing: the second delivery leaves every plane's extent, every control   *)
(* and the scene as the first delivery left them.                            *)
IdempotentStep ==
    /\ (Returned /\ cb'.line = "13" /\ cb'.repeat) =>
           (planes' = planes /\ sliders' = sliders /\ actors' = actors)
    /\ (cb.line \in {"13", "14", "15"} /\ cb.repeat) =>
           (planes' = planes /\ sliders' = sliders /\ actors' = actors)

C7_Idempotent == [][IdempotentStep]_vars

C7_Witness ==
    /\ pc = "running"
    /\ cb.line = "returned"
    /\ cb.repeat
    /\ PinnedMin(cb.slider) = cb.position
    /\ planes # InitialPlanes

(* C8: the scene lists the static actors in their given order, then the      *)
(* planes in the order sagittal, axial, coronal.                             *)
C8_SceneOrder ==
    pc \in {"scene", "running"} =>
        actors = objects \o <<"sagittal", "axial", "coronal">>

C8_Witness ==
    /\ pc = "scene"
    /\ Len(objects) >= 3
    /\ Len(actors) = Len(objects) + 3
    /\ actors[Len(actors)] = "coronal"
    /\ actors[1] = "outline"

(* C9, as stated: the sagittal plane's flip list is empty; only the axial    *)
(* and coronal planes read the volume through flips.                         *)
C9_SagittalUnflipped ==
    Created =>
        /\ planes[1].input = <<>>
        /\ planes[2].input # <<>>
        /\ planes[3].input # <<>>

(* C9, amended: the sagittal plane reads the volume through the chain flip X *)
(* then flip Y, the same chain as the axial plane; the coronal plane reads   *)
(* it through flip Y then flip X; no plane reads the unflipped volume.       *)
C9_SagittalFlippedXY ==
    Created =>
        /\ planes[1].input = <<0, 1>>
        /\ planes[2].input = <<0, 1>>
        /\ planes[3].input = <<1, 0>>

C9_Witness ==
    /\ pc = "planes"
    /\ planes[1].name = "sagittal"
    /\ planes[1].input = planes[2].input
    /\ Len(planes[1].input) = 2

(* C10: an event on one control changes only the pinned pair of that         *)
(* control's plane, both values in one step: the plane's other two pairs and *)
(* the other two planes stay as they were, and in no state does the pinned   *)
(* pair hold only one of the two new values.                                 *)
FrameStep ==
    (pc = "running" /\ pc' = "running") =>
        \A j \in 1..3 :
            IF cb.line = "15" /\ cb.slider = j
            THEN /\ \A a \in Axes \ {PlaneAxis[j]} :
                        Pair(planes'[j].extent, a) = Pair(planes[j].extent, a)
                 /\ Pair(planes'[j].extent, PlaneAxis[j]) = <<cb.position, cb.position>>
                 /\ planes'[j].input = planes[j].input
            ELSE planes'[j] = planes[j]

PinnedPairWhole == Created => \A j \in 1..3 : PinnedMin(j) = PinnedMax(j)

C10_FrameAndSingleUpdate == [][FrameStep]_vars /\ []PinnedPairWhole

C10_Witness ==
    /\ Delivered(1)
    /\ PinnedMin(1) # CenterIndex(volume, 0)
    /\ PinnedMin(1) = PinnedMax(1)
    /\ planes[2] = InitialPlanes[2]
    /\ planes[3] = InitialPlanes[3]

====
